---- MODULE Spec2Model ----
(***************************************************************************)
(* Model of src/src/cogs/downloader.py: the in-flight table                *)
(* `downloading_files`, the duplicate check `check_file_exists`, and the   *)
(* three handlers `download` (a video message arrives), `button` (a button *)
(* of a confirmation prompt is pressed) and `status`.                      *)
(*                                                                         *)
(* The handlers are asyncio coroutines: the code between two `await`s runs *)
(* without interruption, and a handler is suspended at its `await`s.  Each *)
(* action below is one such uninterrupted stretch of one run of a handler. *)
(* That other handlers run while one is suspended is the scheduling model  *)
(* of the specification (section 5); the dispatcher is not part of the     *)
(* sources modelled here.                                                  *)
(*                                                                         *)
(* `replies` holds the texts a handler run has passed to reply_text /      *)
(* send_message.  Every await returns, raises or is cancelled, in a step   *)
(* of its own: the handler is suspended in between, also in the reply that *)
(* is its last statement.                                                  *)
(***************************************************************************)
EXTENDS Naturals, Integers, FiniteSets, Sequences, TLC

\* Bounds of the model: the number of video messages (runs of `download`),
\* of callback queries (runs of `button`) and of status queries (runs of
\* `status`).
NumReq == 1
NumPress == 2
NumStatus == 1

Req == 1..NumReq
Press == 1..NumPress
Stat == 1..NumStatus

\* Two file ids and two file names give every combination the duplicate
\* check distinguishes: same id, same name, both, neither.
FileIds == {"f1", "f2"}
FileNames == {"a.mp4", "b.mp4"}

\* file_name of a document or video that carries none (Python None).
NoFileName == "None"

\* A message without document and video: get_video returns None.
None == [file_id |-> "", file_name |-> ""]
Videos == [file_id : FileIds, file_name : FileNames]
\* Videos and documents without a file name.
NamelessVideos == [file_id : FileIds, file_name : {NoFileName}]

\* A telegram Message, by what the handlers read of it: its document or
\* video.  NoMessage is the Python None where a Message is expected.
Message(v) == [present |-> TRUE, video |-> v]
NoMessage == [present |-> FALSE, video |-> None]
Messages == {Message(v) : v \in Videos \cup NamelessVideos \cup {None}} \cup {NoMessage}

\* An Update, by what get_video reads of it: update.message and
\* update.effective_message.reply_to_message (NoMessage also when
\* effective_message itself is None).
Update(m, q) == [message |-> m, reply_to_message |-> q]

\* The updates `download` is called with.  Its filter passes messages that
\* carry a video, with or without a file name: new messages (update.message
\* is set), and edited messages and channel posts (update.message is None),
\* which may be replies to another message.
Inputs == {Update(NoMessage, NoMessage),
           Update(NoMessage, Message(None)),
           Update(NoMessage, Message([file_id |-> "f1", file_name |-> "a.mp4"])),
           Update(Message([file_id |-> "f1", file_name |-> NoFileName]), NoMessage)}
          \cup {Update(Message(v), NoMessage) : v \in Videos}

\* The messages a confirmation prompt can reply to when one of its buttons
\* is pressed: a video message that `download` let pass (it carries a file
\* name), or none when that message has been deleted.  Prompts outlive the
\* table (which is lost at a restart) and keep their buttons, so a callback
\* query can arrive for any such message at any time and any number of
\* times.
CallbackMessages == {Message(v) : v \in Videos} \cup {NoMessage}
\* callback_data of the two buttons (lines 130-131).
CallbackData == {"yes", "no"}

\* get_video: the document or video of update.message, or of the message
\* the effective message replies to when update.message is None.
get_video(u) ==
    LET message == IF u.message.present THEN u.message ELSE u.reply_to_message
    IN  IF ~message.present THEN None ELSE message.video

\* Texts the handlers send with reply_text / send_message.
MsgInvalid == "Please send a valid video to download"
MsgExists == "File already exists in downloads folder."
MsgDownloading == "File is already being downloaded."
MsgConfirm == "Are you sure you want to download the file?"
MsgStart == "Downloading file..."
MsgError == "Error downloading file."
MsgSuccess == "File downloaded successfully."
MsgCancelled == "Download cancelled."
MsgNoFiles == "No files are being downloaded at the moment."
MsgStatus == "Downloading files status:"

\* How an await ends other than by returning: the Bot API call raises, or
\* the handler's task is cancelled while it is suspended.
AwaitFailures == {"NetworkError", "CancelledError"}
AwaitEnds == {"return"} \cup AwaitFailures

\* Outcomes of os.makedirs(DOWNLOAD_TO_DIR, exist_ok=True).
MakedirsResults == {"ok", "error"}
\* Outcomes of shutil.move on a source that exists: done; raised with
\* nothing written; raised after the copy fallback had begun writing the
\* destination.  The source is removed only when the move is done.
MoveResults == {"ok", "error", "partial"}
ChmodResults == {"ok", "error"}

\* File paths, as the sequences of their components.  The Bot API server
\* chooses directory and base name of a fetched file.
FileDirs == {"documents", "videos"}
BaseNames == {"file_0", "file_1"}
FilePath(dir, base) == <<"BOT_API_DIR", "TOKEN_SUB_DIR", dir, base>>
TempPaths == {FilePath(d, b) : d \in FileDirs, b \in BaseNames}
\* file_path of a File that has none (Python None).
NoPath == <<"None">>
\* new_file before get_file has returned.
NotFetched == <<>>
\* file_path.split("/")[-1]: the path of the last component alone.
Basename(path) == <<path[Len(path)]>>
\* current_file_path = f"{BOT_API_DIR}{TOKEN_SUB_DIR}/documents/{file_path}"
CurrentFilePath(file_path) == <<"BOT_API_DIR", "TOKEN_SUB_DIR", "documents">> \o file_path
\* move_to_path = f"{DOWNLOAD_TO_DIR}{file_name}"
MoveToPath(file_name) == <<"DOWNLOAD_TO_DIR", file_name>>

VARIABLES
    downloading_files,  \* file_id -> DownloadingFile (a function on the keys present)
    destFiles,          \* names of the files present in DOWNLOAD_TO_DIR
    tempFiles,          \* paths of the files present under BOT_API_DIR
    isLinux,            \* platform.system() == "Linux"
    update,             \* per video message: the Update `download` is called with
    download_pc,        \* per video message: where `download` is suspended
    download_replies,   \* per video message: the texts `download` passed to the chat
    download_exc,       \* per video message: the exception that left `download`
    data,               \* per callback query: query.data
    reply_to_message,   \* per callback query: update.effective_message.reply_to_message
    pc,                 \* per callback query: where `button` is suspended
    replies,            \* per callback query: the texts `button` passed to the chat
    fetches,            \* per callback query: number of context.bot.get_file calls
    new_file,           \* per callback query: file_path of the File get_file returned
    moves,              \* per callback query: number of shutil.move calls
    relocation,         \* per callback query: how os.makedirs and shutil.move ended
    exc,                \* per callback query: the exception that left `button`
    summary,            \* per callback query: the fields of its success message
    status_pc,          \* per status query: where `status` is suspended
    statusReply,        \* per status query: the text `status` passed to the chat
    statusExc           \* per status query: the exception that left `status`

vars == <<downloading_files, destFiles, tempFiles, isLinux, update, download_pc,
          download_replies, download_exc, data, reply_to_message, pc, replies,
          fetches, new_file, moves, relocation, exc, summary, status_pc,
          statusReply, statusExc>>

transferVars == <<downloading_files, destFiles, tempFiles, fetches, new_file,
                  moves, relocation, summary>>
downloadVars == <<update, download_pc, download_replies, download_exc>>
statusVars == <<status_pc, statusReply, statusExc>>

\* The Update of a callback query: update.message is None, the effective
\* message is the prompt.
CallbackUpdate(p) == Update(NoMessage, reply_to_message[p])

\* Per callback query: `video = get_video(update)` of `button` (line 156).
video == [p \in Press |-> get_video(CallbackUpdate(p))]

\* DownloadingFile(file_name=..., ...) built by the run p of `button` (the
\* object's identity).
DownloadingFile(file_name, p) == [file_name |-> file_name, owner |-> p]

Keys == DOMAIN downloading_files

\* dict insertion: downloading_files[file_id] = f
DictSet(d, k, f) == [x \in (DOMAIN d) \cup {k} |-> IF x = k THEN f ELSE d[x]]

\* dict.pop(k) on a key that is present
DictPop(d, k) == [x \in (DOMAIN d) \ {k} |-> d[x]]

\* What a call of check_file_exists gives: (True, message), False, or the
\* TypeError of DOWNLOAD_TO_DIR + file_name on a file_name that is None.
CheckTrue(msg) == [raised |-> FALSE, found |-> TRUE, msg |-> msg]
CheckFalse == [raised |-> FALSE, found |-> FALSE, msg |-> ""]
CheckTypeError == [raised |-> TRUE, found |-> FALSE, msg |-> ""]

CheckDiskOnlyAs(file_id, file_name) ==
    IF file_name = NoFileName THEN CheckTypeError
    ELSE IF file_name \in destFiles THEN CheckTrue(MsgExists)
    ELSE CheckFalse

CheckNoNameAs(file_id, file_name) ==
    IF file_name = NoFileName THEN CheckTypeError
    ELSE IF file_name \in destFiles THEN CheckTrue(MsgExists)
    ELSE IF file_id \in Keys THEN CheckTrue(MsgDownloading)
    ELSE CheckFalse

CheckNoDiskAs(file_id, file_name) ==
    IF file_id \in Keys THEN CheckTrue(MsgDownloading)
    ELSE IF \E k \in Keys : downloading_files[k].file_name = file_name
    THEN CheckTrue(MsgDownloading)
    ELSE CheckFalse

CheckNoIdAs(file_id, file_name) ==
    IF file_name = NoFileName THEN CheckTypeError
    ELSE IF file_name \in destFiles THEN CheckTrue(MsgExists)
    ELSE IF \E k \in Keys : downloading_files[k].file_name = file_name
    THEN CheckTrue(MsgDownloading)
    ELSE CheckFalse

\* check_file_exists: (True, message) or False; line 64 raises TypeError
\* when file_name is None.
check_file_exists(file_id, file_name) ==
    IF file_name = NoFileName THEN CheckTypeError
    ELSE IF file_name \in destFiles THEN CheckTrue(MsgExists)
    ELSE IF file_id \in Keys THEN CheckTrue(MsgDownloading)
    ELSE IF \E k \in Keys : downloading_files[k].file_name = file_name
    THEN CheckTrue(MsgDownloading)
    ELSE CheckFalse

\* Before its handler is called a video message has no Update yet.
NoUpdate == Update(NoMessage, NoMessage)

TypeOK ==
    /\ Keys \subseteq FileIds
    /\ \A k \in Keys : downloading_files[k] \in [file_name : FileNames, owner : Press]
    /\ destFiles \subseteq FileNames
    /\ tempFiles \subseteq TempPaths
    /\ isLinux \in BOOLEAN
    /\ update \in [Req -> Inputs]
    /\ download_pc \in [Req -> {"message", "awaiting", "done"}]
    /\ download_exc \in [Req -> {"", "AttributeError", "TypeError"} \cup AwaitFailures]
    /\ data \in [Press -> {""} \cup CallbackData]
    /\ reply_to_message \in [Press -> Messages]
    /\ pc \in [Press -> {"query", "answer", "starting", "fetching", "replying",
                         "done"}]
    /\ fetches \in [Press -> 0..1]
    /\ new_file \in [Press -> TempPaths \cup {NoPath, NotFetched}]
    /\ moves \in [Press -> 0..1]
    /\ relocation \in [Press -> {"", "moved", "failed"}]
    /\ exc \in [Press -> {"", "AttributeError", "TypeError", "KeyError",
                           "MakedirsError", "MoveError", "ChmodError"}
                          \cup AwaitFailures]
    /\ status_pc \in [Stat -> {"query", "awaiting", "done"}]
    /\ statusExc \in [Stat -> {"", "AttributeError"} \cup AwaitFailures]

Init ==
    /\ downloading_files = <<>>
    /\ destFiles \in SUBSET FileNames
    /\ tempFiles = {}
    /\ isLinux \in BOOLEAN
    /\ update = [r \in Req |-> NoUpdate]
    /\ download_pc = [r \in Req |-> "message"]
    /\ download_replies = [r \in Req |-> <<>>]
    /\ download_exc = [r \in Req |-> ""]
    /\ data = [p \in Press |-> ""]
    /\ reply_to_message = [p \in Press |-> NoMessage]
    /\ pc = [p \in Press |-> "query"]
    /\ replies = [p \in Press |-> <<>>]
    /\ fetches = [p \in Press |-> 0]
    /\ new_file = [p \in Press |-> NotFetched]
    /\ moves = [p \in Press |-> 0]
    /\ relocation = [p \in Press |-> ""]
    /\ exc = [p \in Press |-> ""]
    /\ summary = [p \in Press |-> <<>>]
    /\ status_pc = [s \in Stat |-> "query"]
    /\ statusReply = [s \in Stat |-> <<>>]
    /\ statusExc = [s \in Stat |-> ""]

Say(p, msg) == replies' = [replies EXCEPT ![p] = Append(@, msg)]
Goto(p, l) == pc' = [pc EXCEPT ![p] = l]
Raise(p, e) == exc' = [exc EXCEPT ![p] = e]

\* `await message.reply_text(msg)` as the last statement of a path of
\* `button`: on a message that is None the attribute access raises
\* AttributeError, nothing is passed and the handler ends; otherwise the
\* text is passed and the handler is suspended in the await.
reply_text(p, message, msg) ==
    IF message.present
    THEN Say(p, msg) /\ Goto(p, "replying") /\ UNCHANGED exc
    ELSE Raise(p, "AttributeError") /\ Goto(p, "done") /\ UNCHANGED replies

\* `download` on update.message that is None: AttributeError at line 104,
\* 109 or 123, nothing passed; otherwise the text is passed and the handler
\* is suspended in the await.
DownloadSay(r, message, msg) ==
    IF message.present
    THEN /\ download_replies' = [download_replies EXCEPT ![r] = Append(@, msg)]
         /\ download_pc' = [download_pc EXCEPT ![r] = "awaiting"]
         /\ UNCHANGED download_exc
    ELSE /\ download_exc' = [download_exc EXCEPT ![r] = "AttributeError"]
         /\ download_pc' = [download_pc EXCEPT ![r] = "done"]
         /\ UNCHANGED download_replies

\* As download, with the entry inserted as soon as the check passes.
DownloadInsertsAs(r, u) ==
    /\ download_pc[r] = "message"
    /\ update' = [update EXCEPT ![r] = u]
    /\ LET v == get_video(u)
       IN  IF v = None
           THEN DownloadSay(r, u.message, MsgInvalid) /\ UNCHANGED downloading_files
           ELSE LET check == check_file_exists(v.file_id, v.file_name)
                IN  IF check.raised
                    THEN /\ download_exc' = [download_exc EXCEPT ![r] = "TypeError"]
                         /\ download_pc' = [download_pc EXCEPT ![r] = "done"]
                         /\ UNCHANGED <<download_replies, downloading_files>>
                    ELSE IF check.found
                    THEN /\ DownloadSay(r, u.message, check.msg)
                         /\ UNCHANGED downloading_files
                    ELSE /\ downloading_files' =
                                DictSet(downloading_files, v.file_id,
                                        DownloadingFile(v.file_name, 0))
                         /\ DownloadSay(r, u.message, MsgConfirm)
    /\ UNCHANGED <<destFiles, tempFiles, isLinux, data, reply_to_message, pc,
                   replies, fetches, new_file, moves, relocation, exc, summary,
                   statusVars>>

\* The `download` handler is called with the Update u of a video message
\* and runs to its await: the reply of line 104 or 109, or the
\* confirmation prompt of line 122.  Every answer goes through
\* update.message (reply_text at lines 104 and 109, chat_id and message_id
\* at lines 123-125).
download(r, u) ==
    /\ download_pc[r] = "message"
    /\ update' = [update EXCEPT ![r] = u]
    /\ LET v == get_video(u)
       IN  IF v = None
           THEN DownloadSay(r, u.message, MsgInvalid)
           ELSE LET check == check_file_exists(v.file_id, v.file_name)
                IN  IF check.raised
                    THEN /\ download_exc' = [download_exc EXCEPT ![r] = "TypeError"]
                         /\ download_pc' = [download_pc EXCEPT ![r] = "done"]
                         /\ UNCHANGED download_replies
                    ELSE IF check.found
                    THEN DownloadSay(r, u.message, check.msg)
                    ELSE DownloadSay(r, u.message, MsgConfirm)
    /\ UNCHANGED <<downloading_files, destFiles, tempFiles, isLinux, data,
                   reply_to_message, pc, replies, fetches, new_file, moves,
                   relocation, exc, summary, statusVars>>

\* The await `download` is suspended in returns, raises or is cancelled:
\* the handler ends.
download_awaited(r, end) ==
    /\ download_pc[r] = "awaiting"
    /\ download_pc' = [download_pc EXCEPT ![r] = "done"]
    /\ download_exc' = [download_exc EXCEPT ![r] = IF end = "return" THEN @ ELSE end]
    /\ UNCHANGED <<downloading_files, destFiles, tempFiles, isLinux, update,
                   download_replies, data, reply_to_message, pc, replies, fetches,
                   new_file, moves, relocation, exc, summary, statusVars>>

\* A callback query arrives, with query.data d and the prompt's replied-to
\* message m: `button` runs to `await query.answer()`.  The runs of
\* `button` are numbered in the order of their arrival.
button_click(p, d, m) ==
    /\ pc[p] = "query"
    /\ p - 1 \in Press => pc[p - 1] # "query"
    /\ data' = [data EXCEPT ![p] = d]
    /\ reply_to_message' = [reply_to_message EXCEPT ![p] = m]
    /\ Goto(p, "answer")
    /\ UNCHANGED <<downloading_files, destFiles, tempFiles, isLinux, downloadVars,
                   replies, fetches, new_file, moves, relocation, exc, summary,
                   statusVars>>

\* `await query.answer()` raises or is cancelled: the exception leaves the
\* handler before it has looked at the update.
button_answer_failed(p, e) ==
    /\ pc[p] = "answer"
    /\ Raise(p, e)
    /\ Goto(p, "done")
    /\ UNCHANGED <<downloading_files, destFiles, tempFiles, isLinux, downloadVars,
                   data, reply_to_message, replies, fetches, new_file, moves,
                   relocation, summary, statusVars>>

\* As button_confirm, with the entry inserted before the duplicate check.
ButtonConfirmInsertFirstAs(p) ==
    /\ pc[p] = "answer"
    /\ LET message == reply_to_message[p]
           v == get_video(CallbackUpdate(p))
       IN  IF v = None
           THEN /\ reply_text(p, message, MsgInvalid)
                /\ UNCHANGED downloading_files
           ELSE IF data[p] = "yes"
           THEN LET check == check_file_exists(v.file_id, v.file_name)
                IN  IF check.raised
                    THEN /\ Raise(p, "TypeError") /\ Goto(p, "done")
                         /\ UNCHANGED <<replies, downloading_files>>
                    ELSE /\ downloading_files' =
                                DictSet(downloading_files, v.file_id,
                                        DownloadingFile(v.file_name, p))
                         /\ IF check.found
                            THEN reply_text(p, message, check.msg)
                            ELSE /\ Say(p, MsgStart) /\ Goto(p, "starting")
                                 /\ UNCHANGED exc
           ELSE /\ reply_text(p, message, MsgCancelled)
                /\ UNCHANGED downloading_files
    /\ UNCHANGED <<destFiles, tempFiles, isLinux, downloadVars, data,
                   reply_to_message, fetches, new_file, moves, relocation, summary,
                   statusVars>>

\* `button` from the return of query.answer() to its next await: the check,
\* the insertion and the "Downloading file..." reply (line 182), or the
\* reply of line 158, 168 or 242.  `message` is
\* update.effective_message.reply_to_message (line 154).
button_confirm(p) ==
    /\ pc[p] = "answer"
    /\ LET message == reply_to_message[p]
           v == get_video(CallbackUpdate(p))
       IN  IF v = None
           THEN /\ reply_text(p, message, MsgInvalid)
                /\ UNCHANGED downloading_files
           ELSE IF data[p] = "yes"
           THEN LET check == check_file_exists(v.file_id, v.file_name)
                IN  IF check.raised
                    THEN /\ Raise(p, "TypeError") /\ Goto(p, "done")
                         /\ UNCHANGED <<replies, downloading_files>>
                    ELSE IF check.found
                    THEN /\ reply_text(p, message, check.msg)
                         /\ UNCHANGED downloading_files
                    ELSE /\ downloading_files' =
                                DictSet(downloading_files, v.file_id,
                                        DownloadingFile(v.file_name, p))
                         /\ Say(p, MsgStart) /\ Goto(p, "starting")
                         /\ UNCHANGED exc
           ELSE /\ reply_text(p, message, MsgCancelled)
                /\ UNCHANGED downloading_files
    /\ UNCHANGED <<destFiles, tempFiles, isLinux, downloadVars, data,
                   reply_to_message, fetches, new_file, moves, relocation, summary,
                   statusVars>>

\* The "Downloading file..." reply (line 182) raises or is cancelled.  It is
\* outside the try of line 184: the exception leaves the handler, get_file
\* is not called and the entry of line 179 stays.
button_start_failed(p, e) ==
    /\ pc[p] = "starting"
    /\ Raise(p, e)
    /\ Goto(p, "done")
    /\ UNCHANGED <<downloading_files, destFiles, tempFiles, isLinux, downloadVars,
                   data, reply_to_message, replies, fetches, new_file, moves,
                   relocation, summary, statusVars>>

\* The "Downloading file..." reply returns and get_file is awaited.
button_get_file(p) ==
    /\ pc[p] = "starting"
    /\ fetches' = [fetches EXCEPT ![p] = @ + 1]
    /\ Goto(p, "fetching")
    /\ UNCHANGED <<downloading_files, destFiles, tempFiles, isLinux, downloadVars,
                   data, reply_to_message, replies, new_file, moves, relocation,
                   exc, summary, statusVars>>

\* get_file raises an Exception: the except branch passes the error text
\* and is suspended in that await (line 189).
button_fetch_error(p) ==
    /\ pc[p] = "fetching"
    /\ reply_text(p, reply_to_message[p], MsgError)
    /\ UNCHANGED <<downloading_files, destFiles, tempFiles, isLinux, downloadVars,
                   data, reply_to_message, fetches, new_file, moves, relocation,
                   summary, statusVars>>

\* The handler's task is cancelled while it awaits get_file: CancelledError
\* is a BaseException, `except Exception` does not catch it.
button_fetch_cancelled(p) ==
    /\ pc[p] = "fetching"
    /\ Raise(p, "CancelledError")
    /\ Goto(p, "done")
    /\ UNCHANGED <<downloading_files, destFiles, tempFiles, isLinux, downloadVars,
                   data, reply_to_message, replies, fetches, new_file, moves,
                   relocation, summary, statusVars>>

\* As button_fetched, with the entry popped after the move instead of before.
ButtonFetchedPopLastAs(p, path, mk, mv, ch) ==
    /\ pc[p] = "fetching"
    /\ new_file' = [new_file EXCEPT ![p] = path]
    /\ LET v == get_video(CallbackUpdate(p))
           fetched == IF path = NoPath THEN tempFiles ELSE tempFiles \cup {path}
       IN  IF path = NoPath
           THEN /\ Raise(p, "AttributeError") /\ Goto(p, "done")
                /\ tempFiles' = fetched
                /\ UNCHANGED <<downloading_files, destFiles, moves, relocation,
                               replies, summary>>
           ELSE LET current_file_path == CurrentFilePath(Basename(path))
                IN  IF mk = "error"
                    THEN /\ Raise(p, "MakedirsError") /\ Goto(p, "done")
                         /\ relocation' = [relocation EXCEPT ![p] = "failed"]
                         /\ tempFiles' = fetched
                         /\ UNCHANGED <<downloading_files, destFiles, moves,
                                        replies, summary>>
                    ELSE /\ moves' = [moves EXCEPT ![p] = @ + 1]
                         /\ IF current_file_path \in fetched /\ mv = "ok"
                            THEN /\ relocation' = [relocation EXCEPT ![p] = "moved"]
                                 /\ tempFiles' = fetched \ {current_file_path}
                                 /\ destFiles' = destFiles \cup {v.file_name}
                                 /\ downloading_files' =
                                       DictPop(downloading_files, v.file_id)
                                 /\ IF isLinux /\ ch = "error"
                                    THEN /\ Raise(p, "ChmodError") /\ Goto(p, "done")
                                         /\ UNCHANGED <<replies, summary>>
                                    ELSE /\ reply_text(p, reply_to_message[p],
                                                       MsgSuccess)
                                         /\ summary' =
                                               [summary EXCEPT ![p] =
                                                  [file_name |-> v.file_name,
                                                   file_path |-> Basename(path)]]
                            ELSE /\ relocation' = [relocation EXCEPT ![p] = "failed"]
                                 /\ tempFiles' = fetched
                                 /\ destFiles' =
                                       IF current_file_path \in fetched
                                          /\ mv = "partial"
                                       THEN destFiles \cup {v.file_name}
                                       ELSE destFiles
                                 /\ Raise(p, "MoveError") /\ Goto(p, "done")
                                 /\ UNCHANGED <<downloading_files, replies, summary>>
    /\ UNCHANGED <<isLinux, downloadVars, data, reply_to_message, fetches,
                   statusVars>>

\* get_file returns a File whose file_path is `path`: the entry is popped
\* (line 201), the base name taken from the path (208), the destination
\* directory made (215), the file moved from documents/ (216), chmod
\* applied on Linux (220), and the success message passed (239), in whose
\* await the handler is suspended.  A file_path that is None raises
\* AttributeError at line 208.  mk, mv and ch are what os.makedirs,
\* shutil.move and os.chmod do.  shutil.move raises when there is no file
\* at current_file_path.
button_fetched(p, path, mk, mv, ch) ==
    /\ pc[p] = "fetching"
    /\ new_file' = [new_file EXCEPT ![p] = path]
    /\ LET v == get_video(CallbackUpdate(p))
           fetched == IF path = NoPath THEN tempFiles ELSE tempFiles \cup {path}
       IN  IF v.file_id \notin Keys
           THEN \* downloading_files.pop raises KeyError
                /\ Raise(p, "KeyError") /\ Goto(p, "done")
                /\ tempFiles' = fetched
                /\ UNCHANGED <<downloading_files, destFiles, moves, relocation,
                               replies, summary>>
           ELSE /\ downloading_files' = DictPop(downloading_files, v.file_id)
                /\ IF path = NoPath
                   THEN /\ Raise(p, "AttributeError") /\ Goto(p, "done")
                        /\ tempFiles' = fetched
                        /\ UNCHANGED <<destFiles, moves, relocation, replies,
                                       summary>>
                   ELSE LET current_file_path == CurrentFilePath(Basename(path))
                        IN  IF mk = "error"
                            THEN /\ Raise(p, "MakedirsError") /\ Goto(p, "done")
                                 /\ relocation' = [relocation EXCEPT ![p] = "failed"]
                                 /\ tempFiles' = fetched
                                 /\ UNCHANGED <<destFiles, moves, replies, summary>>
                            ELSE /\ moves' = [moves EXCEPT ![p] = @ + 1]
                                 /\ IF current_file_path \in fetched /\ mv = "ok"
                                    THEN /\ relocation' =
                                               [relocation EXCEPT ![p] = "moved"]
                                         /\ tempFiles' = fetched \ {current_file_path}
                                         /\ destFiles' = destFiles \cup {v.file_name}
                                         /\ IF isLinux /\ ch = "error"
                                            THEN /\ Raise(p, "ChmodError")
                                                 /\ Goto(p, "done")
                                                 /\ UNCHANGED <<replies, summary>>
                                            ELSE /\ reply_text(p, reply_to_message[p],
                                                               MsgSuccess)
                                                 /\ summary' =
                                                       [summary EXCEPT ![p] =
                                                          [file_name |-> v.file_name,
                                                           file_path |-> Basename(path)]]
                                    ELSE /\ relocation' =
                                               [relocation EXCEPT ![p] = "failed"]
                                         /\ tempFiles' = fetched
                                         /\ destFiles' =
                                               IF current_file_path \in fetched
                                                  /\ mv = "partial"
                                               THEN destFiles \cup {v.file_name}
                                               ELSE destFiles
                                         /\ Raise(p, "MoveError") /\ Goto(p, "done")
                                         /\ UNCHANGED <<replies, summary>>
    /\ UNCHANGED <<isLinux, downloadVars, data, reply_to_message, fetches,
                   statusVars>>

\* The reply `button` is suspended in as its last statement (line 158, 168,
\* 189, 239 or 242) returns, raises or is cancelled: the handler ends.
button_replied(p, end) ==
    /\ pc[p] = "replying"
    /\ Goto(p, "done")
    /\ IF end = "return" THEN UNCHANGED exc ELSE Raise(p, end)
    /\ UNCHANGED <<downloading_files, destFiles, tempFiles, isLinux, downloadVars,
                   data, reply_to_message, replies, fetches, new_file, moves,
                   relocation, summary, statusVars>>

\* A status query arrives with an Update whose update.message is `message`:
\* `status` passes its answer through update.message (lines 81 and 93) and
\* is suspended in that await; it raises AttributeError without an answer
\* when update.message is None.  The runs of `status` are numbered in the
\* order of their arrival.
status(s, message) ==
    /\ status_pc[s] = "query"
    /\ s - 1 \in Stat => status_pc[s - 1] # "query"
    /\ IF message.present
       THEN /\ statusReply' =
                  [statusReply EXCEPT ![s] =
                     IF Keys = {}
                     THEN <<MsgNoFiles>>
                     ELSE <<MsgStatus, {downloading_files[k].file_name : k \in Keys}>>]
            /\ status_pc' = [status_pc EXCEPT ![s] = "awaiting"]
            /\ UNCHANGED statusExc
       ELSE /\ statusExc' = [statusExc EXCEPT ![s] = "AttributeError"]
            /\ status_pc' = [status_pc EXCEPT ![s] = "done"]
            /\ UNCHANGED statusReply
    /\ UNCHANGED <<downloading_files, destFiles, tempFiles, isLinux, downloadVars,
                   data, reply_to_message, pc, replies, fetches, new_file, moves,
                   relocation, exc, summary>>

\* The reply `status` is suspended in returns, raises or is cancelled: the
\* handler ends.
status_awaited(s, end) ==
    /\ status_pc[s] = "awaiting"
    /\ status_pc' = [status_pc EXCEPT ![s] = "done"]
    /\ statusExc' = [statusExc EXCEPT ![s] = IF end = "return" THEN @ ELSE end]
    /\ UNCHANGED <<downloading_files, destFiles, tempFiles, isLinux, downloadVars,
                   data, reply_to_message, pc, replies, fetches, new_file, moves,
                   relocation, exc, summary, statusReply>>

\* The ends of the calls one run of button_fetched makes.  A call that is
\* not reached (after an earlier one raised) has no end of its own: it is
\* written as "ok".
FetchedOutcomes ==
    {o \in [path : TempPaths \cup {NoPath}, mk : MakedirsResults, mv : MoveResults,
            ch : ChmodResults] :
        /\ o.path = NoPath => (o.mk = "ok" /\ o.mv = "ok" /\ o.ch = "ok")
        /\ o.mk = "error" => (o.mv = "ok" /\ o.ch = "ok")
        /\ o.mv # "ok" => o.ch = "ok"}

\* The runs of `button`.
Button ==
    \/ \E p \in Press, d \in CallbackData, m \in CallbackMessages : button_click(p, d, m)
    \/ \E p \in Press, e \in AwaitFailures : button_answer_failed(p, e)
    \/ \E p \in Press : button_confirm(p)
    \/ \E p \in Press, e \in AwaitFailures : button_start_failed(p, e)
    \/ \E p \in Press : button_get_file(p)
    \/ \E p \in Press : button_fetch_error(p)
    \/ \E p \in Press : button_fetch_cancelled(p)
    \/ \E p \in Press, o \in FetchedOutcomes :
          button_fetched(p, o.path, o.mk, o.mv, o.ch)
    \/ \E p \in Press, end \in AwaitEnds : button_replied(p, end)

\* The runs of `download`.
Download ==
    \/ \E r \in Req, u \in Inputs : download(r, u)
    \/ \E r \in Req, end \in AwaitEnds : download_awaited(r, end)

\* /status as a new message, or as an edited one (update.message is None).
StatusMessages == {Message(None), NoMessage}

\* The runs of `status`.
Status ==
    \/ \E s \in Stat, message \in StatusMessages : status(s, message)
    \/ \E s \in Stat, end \in AwaitEnds : status_awaited(s, end)

\* Callback queries, handled concurrently.  `download` and `status` write
\* only their own replies, which `button` does not read, and change nothing
\* `button` reads: they are left to SpecDownload and SpecStatus.
Next == Button

Spec == Init /\ [][Next]_vars

\* Video messages and callback queries, handled concurrently.
NextDownload == Button \/ Download

SpecDownload == Init /\ [][NextDownload]_vars

\* Callback queries and status queries, handled concurrently.
NextStatus == Button \/ Status

SpecStatus == Init /\ [][NextStatus]_vars

(***************************************************************************)
(* Vocabulary of the properties.  A transfer request is a callback query:  *)
(* one run of `button`.                                                    *)
(***************************************************************************)
Has(p, msg) == \E i \in 1..Len(replies[p]) : replies[p][i] = msg
LastReply(p) == IF replies[p] = <<>> THEN "" ELSE replies[p][Len(replies[p])]

\* p has arrived, answers "yes" and replies to a video message.
Confirmed(p) == data[p] = "yes" /\ video[p] \in Videos
\* The handler of p has run the duplicate check: it went past
\* query.answer() and passed a text to the chat.
Checked(p) == Confirmed(p) /\ replies[p] # <<>>
\* p passed the duplicate check: it inserted its entry.
Admitted(p) == Has(p, MsgStart)
\* p was turned away by the duplicate check: its handler has passed the
\* rejection.
Rejected(p) ==
    /\ Checked(p) /\ pc[p] \in {"replying", "done"}
    /\ LastReply(p) \in {MsgExists, MsgDownloading}
\* p is between its admission and the end of its fetch.
InFlight(p) == pc[p] \in {"starting", "fetching"}
\* The registry holds the entry p inserted.
OwnsEntry(p) ==
    /\ video[p].file_id \in Keys
    /\ downloading_files[video[p].file_id].owner = p
\* get_file has returned to p: p has run the pop of line 201.
Fetched(p) == new_file[p] # NotFetched
FetchFailed(p) == pc[p] = "done" /\ LastReply(p) = MsgError
Completed(p) == pc[p] = "done" /\ LastReply(p) = MsgSuccess
\* The relocation of p's fetched file failed: os.makedirs or shutil.move
\* raised.
RelocationFailed(p) == relocation[p] = "failed"
\* p has run its release and ended without moving a file: get_file gave no
\* file path, or the relocation failed.
NotPlaced(p) == Fetched(p) /\ (new_file[p] = NoPath \/ RelocationFailed(p))

\* The step in which the handler of p runs its duplicate check:
\* query.answer() has returned, the replied-to video is there and the
\* answer is "yes".
CheckStep(p) ==
    /\ pc[p] = "answer" /\ pc'[p] # "answer"
    /\ replies'[p] # replies[p]
    /\ video[p] # None /\ data[p] = "yes"

\* The step admits p / turns p away.
Admits(p) == pc'[p] = "starting"
TurnsAway(p) == pc'[p] = "replying" /\ LastReply(p)' \in {MsgExists, MsgDownloading}

\* The confirmed requests that carry file id f.
IdGroup(f) == {p \in Press : Confirmed(p) /\ video[p].file_id = f}
\* The confirmed requests for video v (same id and name).
Group(v) == {p \in Press : Confirmed(p) /\ video[p] = v}
\* No confirmed request outside S shares a file id or a file name with one
\* inside.
Isolated(S) ==
    \A q \in Press \ S, p \in S :
        Confirmed(q) => /\ video[q].file_id # video[p].file_id
                        /\ video[q].file_name # video[p].file_name
\* Every request of the set has run the duplicate check and has ended.
AllEnded(S) == \A p \in S : Checked(p) /\ pc[p] = "done"
\* The files of the set were absent from the destination at the start: a
\* name of the set that is there now was moved there by a request of the
\* set.
AbsentAtStart(S) ==
    \A p \in S :
        video[p].file_name \in destFiles
        => \E q \in S : video[q].file_name = video[p].file_name /\ moves[q] = 1

\* C1 as stated: of the confirmed requests for one file id, the file absent
\* from the destination at the start, once all have run the check and
\* ended, exactly one was admitted and every other was rejected.
C1_ExactlyOneAdmitted ==
    \A f \in FileIds :
        (IdGroup(f) # {} /\ Isolated(IdGroup(f)) /\ AllEnded(IdGroup(f))
           /\ AbsentAtStart(IdGroup(f)))
        => /\ Cardinality({p \in IdGroup(f) : Admitted(p)}) = 1
           /\ \A p \in IdGroup(f) : ~Admitted(p) => Rejected(p)

\* C1 amended: of the confirmed requests for one file id, at most one is
\* between its admission and the end of its fetch at any moment; one that
\* runs the check while another holds the registry entry is turned away;
\* one is admitted only when every earlier admitted one has run its release
\* and the destination does not hold its file name; requests for the same
\* id and name are admitted at most once more than earlier ones ran their
\* release without placing the file; and when the files were absent at the
\* start and no other request shares id or name, once all have ended at
\* least one was admitted and every other was rejected.
C1_OneAtATime ==
    /\ [](\A f \in FileIds :
            /\ Cardinality({p \in IdGroup(f) : InFlight(p)}) <= 1
            /\ (IdGroup(f) # {} /\ Isolated(IdGroup(f)) /\ AllEnded(IdGroup(f))
                  /\ AbsentAtStart(IdGroup(f)))
               => /\ Cardinality({p \in IdGroup(f) : Admitted(p)}) >= 1
                  /\ \A p \in IdGroup(f) : ~Admitted(p) => Rejected(p))
    /\ [](\A v \in Videos :
            Cardinality({p \in Group(v) : Admitted(p)})
               <= 1 + Cardinality({p \in Group(v) : NotPlaced(p)}))
    /\ [][\A p \in Press :
            CheckStep(p)
            => LET others == IdGroup(video[p].file_id) \ {p}
               IN  /\ (\E q \in others : OwnsEntry(q)) => TurnsAway(p)
                   /\ Admits(p)
                      => /\ video[p].file_name \notin destFiles
                         /\ \A q \in others : Admitted(q) => Fetched(q)
         ]_vars

\* Two confirmed requests for the same file have ended, one admitted and
\* completed, the other rejected.
C1_Witness ==
    \E p1, p2 \in Press :
        /\ p1 # p2 /\ Confirmed(p1) /\ video[p1] = video[p2]
        /\ IdGroup(video[p1].file_id) = {p1, p2}
        /\ AllEnded({p1, p2}) /\ AbsentAtStart({p1, p2})
        /\ Admitted(p1) /\ Completed(p1) /\ Rejected(p2)

\* The confirmed requests that carry file name n.
NameGroup(n) == {p \in Press : Confirmed(p) /\ video[p].file_name = n}
DistinctIds(S) == \A p1, p2 \in S : p1 # p2 => video[p1].file_id # video[p2].file_id
\* No confirmed request outside NameGroup(n) shares a file id with one
\* inside.
IsolatedName(n) ==
    \A q \in Press \ NameGroup(n), p \in NameGroup(n) :
        Confirmed(q) => video[q].file_id # video[p].file_id

\* C2 as stated: of the confirmed requests with one file name and pairwise
\* distinct file ids, the file absent from the destination at the start,
\* once all have run the check and ended, exactly one was admitted; and no
\* two registry entries have the same file name.
C2_ExactlyOnePerName ==
    /\ \A n \in FileNames :
          (Cardinality(NameGroup(n)) >= 2 /\ DistinctIds(NameGroup(n))
             /\ IsolatedName(n) /\ AllEnded(NameGroup(n))
             /\ AbsentAtStart(NameGroup(n)))
          => Cardinality({p \in NameGroup(n) : Admitted(p)}) = 1
    /\ \A k1, k2 \in Keys :
          k1 # k2 => downloading_files[k1].file_name # downloading_files[k2].file_name

\* C2 amended: of the confirmed requests with one file name and pairwise
\* distinct file ids, at most one is between its admission and the end of
\* its fetch at any moment; one that runs the check while another holds its
\* registry entry is turned away; they are admitted at most once more than
\* earlier ones ran their release without placing the file; when the file was absent at the start
\* and no other request shares an id with them, once all have ended at
\* least one was admitted; and in every state no two registry entries have
\* the same file name.
C2_OnePerNameAtATime ==
    /\ [](\A n \in FileNames :
            (Cardinality(NameGroup(n)) >= 2 /\ DistinctIds(NameGroup(n)))
            => /\ Cardinality({p \in NameGroup(n) : InFlight(p)}) <= 1
               /\ Cardinality({p \in NameGroup(n) : Admitted(p)})
                     <= 1 + Cardinality({p \in NameGroup(n) : NotPlaced(p)})
               /\ (IsolatedName(n) /\ AllEnded(NameGroup(n))
                     /\ AbsentAtStart(NameGroup(n)))
                  => Cardinality({p \in NameGroup(n) : Admitted(p)}) >= 1)
    /\ [](\A k1, k2 \in Keys :
            k1 # k2 => downloading_files[k1].file_name # downloading_files[k2].file_name)
    /\ [][\A p \in Press :
            (CheckStep(p)
               /\ \E q \in NameGroup(video[p].file_name) \ {p} : OwnsEntry(q))
            => TurnsAway(p)
         ]_vars

\* Two confirmed requests with distinct ids and one name: the first is still
\* fetching, the second has been rejected as already being downloaded.
C2_Witness ==
    \E p1, p2 \in Press :
        /\ Confirmed(p1) /\ Confirmed(p2)
        /\ video[p1].file_name = video[p2].file_name
        /\ video[p1].file_id # video[p2].file_id
        /\ pc[p1] = "fetching" /\ OwnsEntry(p1)
        /\ Rejected(p2) /\ LastReply(p2) = MsgDownloading

\* C3: once the confirmed-download handler of an admitted transfer has
\* ended, on whatever path, the registry holds no entry of that transfer.
C3_NoLeak ==
    \A p \in Press : (Admitted(p) /\ pc[p] = "done") => ~OwnsEntry(p)

\* C4: the duplicate check of (fileId, fileName) rejects exactly when the
\* destination holds fileName, or fileId is a registry key, or a registry
\* entry has fileName; otherwise the registry gains the one entry
\* fileId -> fileName and keeps all others.
C4_AdmissionRule ==
    [][\A p \in Press :
          CheckStep(p)
          => LET id == video[p].file_id
                 name == video[p].file_name
                 dup == \/ name \in destFiles
                        \/ id \in Keys
                        \/ \E k \in Keys : downloading_files[k].file_name = name
             IN  IF dup
                 THEN /\ TurnsAway(p)
                      /\ downloading_files' = downloading_files
                 ELSE /\ Admits(p)
                      /\ DOMAIN downloading_files' = Keys \cup {id}
                      /\ id \notin Keys
                      /\ downloading_files'[id].file_name = name
                      /\ \A k \in Keys : downloading_files'[k] = downloading_files[k]
      ]_vars

\* One request was admitted and fetches under name n; a second with another
\* id and the same name was rejected, while the destination does not hold n.
C4_Witness ==
    \E p1, p2 \in Press :
        /\ pc[p1] = "fetching" /\ OwnsEntry(p1)
        /\ video[p2].file_name = video[p1].file_name
        /\ video[p2].file_id # video[p1].file_id
        /\ Rejected(p2)
        /\ video[p1].file_name \notin destFiles

\* C5: a transfer starts its move only when the destination holds no file
\* of its name.
C5_MoveOntoFreeName ==
    [][\A p \in Press :
          moves'[p] > moves[p] => video[p].file_name \notin destFiles
      ]_vars

\* A transfer has moved its file into place while another confirmed request
\* for the same name was turned away.
C5_Witness ==
    \E p1, p2 \in Press :
        /\ p1 # p2
        /\ video[p1].file_name = video[p2].file_name
        /\ moves[p1] = 1 /\ Completed(p1)
        /\ video[p1].file_name \in destFiles
        /\ Rejected(p2)

\* C6: get_file is called only by a handler whose own check has just
\* admitted it; a handler the check rejects changes neither the registry
\* nor the destination directory and calls neither get_file nor move.
C6_FetchAfterAdmission ==
    /\ [](\A p \in Press :
            /\ fetches[p] > 0 => Admitted(p)
            /\ Rejected(p) => fetches[p] = 0 /\ moves[p] = 0)
    /\ [][\A p \in Press :
            /\ fetches'[p] > fetches[p] => (pc[p] = "starting" /\ OwnsEntry(p))
            /\ ((~Rejected(p) /\ Rejected(p)') \/ (Rejected(p) /\ pc'[p] # pc[p]))
               => /\ downloading_files' = downloading_files
                  /\ destFiles' = destFiles
                  /\ tempFiles' = tempFiles
         ]_vars

\* A confirmed request was rejected because the destination already holds
\* its file, with nothing in flight and nothing fetched.
C6_Witness ==
    \E p \in Press :
        /\ Rejected(p) /\ LastReply(p) = MsgExists
        /\ video[p].file_name \in destFiles
        /\ fetches[p] = 0

\* C7: after a failed fetch the transfer has attempted no move and the
\* registry holds no entry of it.
C7_FetchFailureReleases ==
    \A p \in Press : FetchFailed(p) => (moves[p] = 0 /\ ~OwnsEntry(p))

\* C8: once a transfer cancelled during its fetch has ended, the registry
\* holds no entry for its file id.
C8_CancelReleases ==
    \A p \in Press :
        (pc[p] = "done" /\ fetches[p] = 1 /\ ~Fetched(p)
           /\ ~Has(p, MsgError) /\ exc[p] = "CancelledError")
        => video[p].file_id \notin Keys

\* C9: a confirmed request whose file is not in the destination directory
\* and of which no other transfer is in flight is admitted, also after an
\* earlier transfer of the file failed to fetch.
C9_RetryAdmitted ==
    [][\A p \in Press :
          ( /\ CheckStep(p)
            /\ video[p].file_name \notin destFiles
            /\ \A q \in Press \ {p} :
                  InFlight(q) => /\ video[q].file_id # video[p].file_id
                                 /\ video[q].file_name # video[p].file_name )
          => Admits(p)
      ]_vars

\* C10: a transfer whose move succeeded ends Completed, its success summary
\* passed to the chat, whether or not the permission fix failed.
C10_ChmodFailureNotFatal ==
    \A p \in Press :
        (pc[p] = "done" /\ relocation[p] = "moved") => Completed(p)

Count(p, msg) == Cardinality({i \in 1..Len(replies[p]) : replies[p][i] = msg})
Summaries(p) == Count(p, MsgSuccess)
Errors(p) == Count(p, MsgError) + (IF exc[p] = "" THEN 0 ELSE 1)

\* C12: an admitted transfer that has ended has produced exactly one
\* outcome, a success message or an error (an error message, or an exception
\* raised to the caller), and before it ended at most the one whose reply it
\* is suspended in.
C12_ExactlyOneOutcome ==
    \A p \in Press :
        Admitted(p)
        => CASE pc[p] = "done" -> Summaries(p) + Errors(p) = 1
             [] pc[p] = "replying" -> Summaries(p) + Errors(p) = 1
             [] OTHER -> Summaries(p) + Errors(p) = 0

\* C13: after a successful fetch and a successful move the file is in the
\* destination directory under its name, the fetched file is gone from its
\* temporary path, and the path the success message reports is
\* DOWNLOAD_TO_DIR/file_name.
C13_SummaryPath ==
    [][\A p \in Press :
          (~Completed(p) /\ Completed(p)')
          => /\ video[p].file_name \in destFiles'
             /\ new_file'[p] \notin tempFiles'
             /\ summary'[p].file_path = MoveToPath(video[p].file_name)
      ]_vars

\* C14: in every state a transfer that is admitted and has not ended has
\* its entry in the registry, and every other request has none.
C14_EntryIffInFlight ==
    \A p \in Press :
        /\ InFlight(p) => OwnsEntry(p)
        /\ ~InFlight(p) => ~OwnsEntry(p)

\* The state of a request in the transfer state machine.  The move runs
\* inside the step that ends Fetching.  A request whose handler is suspended
\* in its last reply has not ended: with the success message passed it is
\* Relocating, with the fetch error passed still Fetching, with a rejection
\* or cancellation passed still Requested.
Phase(p) ==
    CASE pc[p] \in {"query", "answer"} -> "Requested"
      [] pc[p] = "starting" -> "Admitted"
      [] pc[p] = "fetching" -> "Fetching"
      [] pc[p] = "replying" /\ ~Admitted(p) -> "Requested"
      [] pc[p] = "replying" /\ Admitted(p) /\ LastReply(p) = MsgSuccess -> "Relocating"
      [] pc[p] = "replying" /\ Admitted(p) /\ LastReply(p) # MsgSuccess -> "Fetching"
      [] pc[p] = "done" /\ Admitted(p) /\ LastReply(p) = MsgSuccess -> "Completed"
      [] pc[p] = "done" /\ Admitted(p) /\ LastReply(p) # MsgSuccess -> "Failed"
      [] OTHER -> "Rejected"

PhaseSteps ==
    {<<"Requested", "Requested">>, <<"Requested", "Admitted">>,
     <<"Requested", "Rejected">>, <<"Admitted", "Fetching">>,
     <<"Fetching", "Relocating">>, <<"Relocating", "Completed">>,
     <<"Fetching", "Failed">>, <<"Relocating", "Failed">>}

\* C15: a request only moves Requested -> Admitted -> Fetching and from
\* there, through the move, to Completed or Failed; the move is started only
\* out of Fetching by a fetch that did not fail; Completed is reached only
\* with the file moved into the destination; Completed and Failed are final.
C15_PhaseOrder ==
    [][\A p \in Press :
          /\ Phase(p)' # Phase(p) => <<Phase(p), Phase(p)'>> \in PhaseSteps
          /\ (moves'[p] > moves[p] \/ (Phase(p) # "Relocating" /\ Phase(p)' = "Relocating"))
             => /\ Phase(p) = "Fetching" /\ fetches[p] = 1
                /\ Fetched(p)' /\ ~Has(p, MsgError)'
          /\ (Phase(p) # "Completed" /\ Phase(p)' = "Completed")
             => /\ relocation[p] = "moved"
                /\ video[p].file_name \in destFiles'
          /\ Phase(p) \in {"Completed", "Failed", "Rejected"}
             => /\ Phase(p)' = Phase(p)
                /\ replies'[p] = replies[p] /\ exc'[p] = exc[p]
                /\ moves'[p] = moves[p] /\ fetches'[p] = fetches[p]
      ]_vars

\* The handler of status query s runs: it passes its answer or raises.
StatusStep(s) == status_pc[s] = "query" /\ status_pc'[s] # "query"
Fetching == {q \in Press : pc[q] = "fetching"}

\* While a transfer awaits get_file, a confirmed request whose id and name
\* are in no registry entry and whose name is not in the destination is
\* admitted in its own step, the fetch still pending.
AdmittedWhileFetching ==
    \A p \in Press :
        ( /\ CheckStep(p)
          /\ Fetching \ {p} # {}
          /\ video[p].file_name \notin destFiles
          /\ \A k \in Keys :
                /\ k # video[p].file_id
                /\ downloading_files[k].file_name # video[p].file_name )
        => /\ Admits(p) /\ OwnsEntry(p)'
           /\ \A q \in Fetching : pc'[q] = "fetching"

\* A status query that runs while a transfer awaits get_file passes an
\* answer, which lists the fetching transfers.
AnsweredWhileFetching ==
    \A s \in Stat :
        (StatusStep(s) /\ Fetching # {})
        => /\ statusExc'[s] # "AttributeError"
           /\ statusReply'[s][1] = MsgStatus
           /\ \A q \in Fetching : video[q].file_name \in statusReply'[s][2]

\* C16: while one transfer is fetching, a request for another id and name
\* is admitted without waiting for the fetch to end, and a status query is
\* answered.
C16_FetchDoesNotBlock == [][AdmittedWhileFetching /\ AnsweredWhileFetching]_vars

\* C17: a status query changes nothing but its own answer; it raises no
\* error, its answer lists exactly the entries the registry holds at the
\* step of the query, and is the "no files" text when the registry is
\* empty.
C17_StatusReadOnly ==
    [][\A s \in Stat :
          /\ status_pc'[s] # status_pc[s]
             => /\ downloading_files' = downloading_files
                /\ UNCHANGED <<destFiles, tempFiles, pc, replies, fetches, moves,
                               exc, summary>>
          /\ StatusStep(s)
             => /\ statusExc'[s] # "AttributeError"
                /\ IF Keys = {}
                   THEN statusReply'[s] = <<MsgNoFiles>>
                   ELSE /\ statusReply'[s][1] = MsgStatus
                        /\ statusReply'[s][2] =
                              {downloading_files[k].file_name : k \in Keys}
      ]_vars

\* C19: from its admission to its pop a transfer's file id is a key of the
\* registry and maps to the entry the transfer inserted, whatever other
\* transfers and status queries do in between; the pop never fails.
C19_PopFindsOwnEntry ==
    /\ [](\A p \in Press :
            /\ InFlight(p) => OwnsEntry(p)
            /\ exc[p] # "KeyError")
    /\ [][\A p \in Press :
            (~Fetched(p) /\ Fetched(p)')
            => /\ OwnsEntry(p)
               /\ video[p].file_id \notin DOMAIN downloading_files'
               /\ \A k \in DOMAIN downloading_files' :
                     downloading_files'[k] = downloading_files[k]
         ]_vars

\* A transfer has popped its entry and moved its file while another was in
\* flight with its own entry, and a status query has listed that other.
C19_Witness ==
    \E p, q \in Press :
        /\ moves[p] = 1 /\ pc[p] = "done" /\ Fetched(p) /\ ~OwnsEntry(p)
        /\ pc[q] = "fetching" /\ OwnsEntry(q)
        /\ \E s \in Stat : statusReply[s] = <<MsgStatus, {video[q].file_name}>>

\* The last text `download` passed for video message r.
LastDownloadReply(r) ==
    IF download_replies[r] = <<>> THEN ""
    ELSE download_replies[r][Len(download_replies[r])]

\* C20: a confirmation answered with anything but "yes" changes neither the
\* registry nor the directories and calls no get_file, and replies that the
\* download is cancelled unless its handler ends with an exception before;
\* the handler of a video message only checks and asks for confirmation: it
\* changes neither the registry nor the directories, and passes the prompt
\* exactly when the check finds no duplicate.
C20_NoTransferWithoutYes ==
    /\ [](\A p \in Press :
            (pc[p] # "query" /\ data[p] # "yes")
            => /\ fetches[p] = 0 /\ moves[p] = 0
               /\ ~Admitted(p) /\ ~OwnsEntry(p))
    /\ [][/\ \A p \in Press :
               /\ (pc[p] # "query" /\ data[p] # "yes" /\ pc'[p] # pc[p])
                  => /\ pc'[p] \in {"replying", "done"}
                     /\ UNCHANGED transferVars
               /\ (pc[p] = "answer" /\ data[p] # "yes" /\ pc'[p] # "answer"
                     /\ exc'[p] = "")
                  => /\ pc'[p] = "replying"
                     /\ LastReply(p)' \in {MsgCancelled, MsgInvalid}
          /\ \A r \in Req :
               download_pc'[r] # download_pc[r]
               => /\ UNCHANGED transferVars
                  /\ download_pc[r] = "message"
                     => LET v == get_video(update'[r])
                            dup == \/ v.file_name \in destFiles
                                   \/ v.file_id \in Keys
                                   \/ \E k \in Keys :
                                         downloading_files[k].file_name = v.file_name
                        IN  (v \in Videos /\ update'[r].message.present)
                            => /\ download_pc'[r] = "awaiting"
                               /\ LastDownloadReply(r)' = MsgConfirm <=> ~dup
         ]_vars

\* A confirmation was answered "no" and ended with the cancellation reply,
\* and a video message was asked for confirmation: nothing registered,
\* fetched or moved.
C20_Witness ==
    /\ \E p \in Press :
          /\ data[p] = "no" /\ pc[p] = "done" /\ exc[p] = ""
          /\ replies[p] = <<MsgCancelled>>
          /\ fetches[p] = 0
    /\ \E r \in Req : download_replies[r] = <<MsgConfirm>>
    /\ Keys = {} /\ tempFiles = {}

====
